---- MODULE Spec2Model ----
(***************************************************************************)
(* Model of the goa design DSL (dsl/api.go) and of the HTTP service        *)
(* expression (expr.HTTPServiceExpr): API and Server declarations, and     *)
(* the tree queries Schemes, Endpoint, EndpointFor, CanonicalEndpoint,     *)
(* FullPaths, Parent and Validate.                                         *)
(*                                                                         *)
(* Strings that the code takes apart (paths) are sequences of characters,  *)
(* each character a one-element string; "{id}" stands for one path         *)
(* variable and is treated as one character of a segment.  Names, URLs and *)
(* diagnostics, which the code only compares, are TLA+ strings.            *)
(***************************************************************************)
EXTENDS Integers, Sequences, FiniteSets, TLC

VARIABLES
    api,       \* expr.Root.API: NoAPI (nil) or the APIExpr record
    apiSeq,    \* number of APIExpr values allocated so far (object identity)
    services,  \* Root.API.HTTP.Services, by service name
    stack,     \* the context stack of eval: its top is eval.Current()
    diags,     \* diagnostics reported through eval by the last DSL call
    ret        \* the last call and what it returned

vars == <<api, apiSeq, services, stack, diags, ret>>

----------------------------------------------------------------------------
(* Bounds of the model *)

\* DSL calls stop when a Servers list holds this many servers
MaxServers == 2

\* at most this many APIExpr are created in one evaluation
MaxAPICalls == 2

\* EndpointFor stops being called when a service holds this many endpoints
MaxEndpoints == 3

\* length of the server lists Schemes is applied to
MaxSchemeServers == 3

----------------------------------------------------------------------------
(* Names *)

NoAPI == [Name |-> "", id |-> 0]

\* the declared services
ServiceNames == {"s1", "s2", "s3"}

\* values of ParentName: none, a declared service, a name that is not declared
ParentNames == {"", "s1", "s2", "s3", "zz"}

\* Go's nil for a service pointer, and for an endpoint pointer (an index)
NilService == "<nil>"
NilEndpoint == 0

----------------------------------------------------------------------------
(* Strings: strings.HasPrefix, path.Clean, path.Join, httppath.Clean *)

Slash == "/"

\* strings.HasPrefix(s, prefix)
HasPrefix(s, prefix) ==
    /\ Len(s) >= Len(prefix)
    /\ SubSeq(s, 1, Len(prefix)) = prefix

\* the elements of p between its slashes: "/a//b" gives "", "a", "", "b"
RECURSIVE SplitSlash(_)
SplitSlash(p) ==
    IF \A i \in 1..Len(p) : p[i] # Slash
    THEN <<p>>
    ELSE LET k == CHOOSE i \in 1..Len(p) :
                      /\ p[i] = Slash
                      /\ \A j \in 1..(i - 1) : p[j] # Slash
         IN  <<SubSeq(p, 1, k - 1)>> \o SplitSlash(SubSeq(p, k + 1, Len(p)))

\* the elements left after the empty, "." and ".." elements are resolved;
\* a ".." that cannot back up is dropped in a rooted path and kept otherwise
RECURSIVE ResolveElements(_, _, _)
ResolveElements(elems, rooted, out) ==
    IF elems = <<>> THEN out
    ELSE LET e == Head(elems)
             rest == Tail(elems)
         IN  IF e = <<>> \/ e = <<".">>
             THEN ResolveElements(rest, rooted, out)
             ELSE IF e = <<".", ".">>
             THEN IF out # <<>> /\ out[Len(out)] # <<".", ".">>
                  THEN ResolveElements(rest, rooted, SubSeq(out, 1, Len(out) - 1))
                  ELSE IF rooted
                  THEN ResolveElements(rest, rooted, out)
                  ELSE ResolveElements(rest, rooted, Append(out, e))
             ELSE ResolveElements(rest, rooted, Append(out, e))

\* the elements written one after the other with a slash between them
RECURSIVE JoinSlash(_)
JoinSlash(elems) ==
    IF elems = <<>> THEN <<>>
    ELSE IF Len(elems) = 1 THEN elems[1]
    ELSE elems[1] \o <<Slash>> \o JoinSlash(Tail(elems))

\* path.Clean(p): the shortest equivalent path; "." for the empty path, and a
\* trailing slash only for the root
PathClean(p) ==
    IF p = <<>> THEN <<".">>
    ELSE LET rooted == p[1] = Slash
             body == JoinSlash(ResolveElements(SplitSlash(p), rooted, <<>>))
         IN  IF rooted THEN <<Slash>> \o body
             ELSE IF body = <<>> THEN <<".">> ELSE body

\* the buffer path.Join builds: an element is skipped while the buffer is empty
\* and the element is empty, and otherwise follows a slash
RECURSIVE JoinBuffer(_, _)
JoinBuffer(elems, buf) ==
    IF elems = <<>> THEN buf
    ELSE LET e == Head(elems)
         IN  IF buf # <<>> \/ e # <<>>
             THEN JoinBuffer(Tail(elems),
                             (IF buf # <<>> THEN buf \o <<Slash>> ELSE buf) \o e)
             ELSE JoinBuffer(Tail(elems), buf)

\* path.Join(elems...): "" when every element is empty, else the cleaned buffer
PathJoin(elems) ==
    IF \A i \in 1..Len(elems) : elems[i] = <<>>
    THEN <<>>
    ELSE PathClean(JoinBuffer(elems, <<>>))

\* httppath.Clean(p): the canonical URL path: always rooted, "/" for the empty
\* path, and the trailing slash of p (or of a final "." element) kept
HttpClean(p) ==
    IF p = <<>> THEN <<Slash>>
    ELSE LET n == Len(p)
             elems == SplitSlash(p)
             trailing == \/ (n > 1 /\ p[n] = Slash)
                         \/ elems[Len(elems)] = <<".">>
             body == JoinSlash(ResolveElements(elems, TRUE, <<>>))
         IN  <<Slash>> \o body \o
                 (IF trailing /\ body # <<>> THEN <<Slash>> ELSE <<>>)

----------------------------------------------------------------------------
(* Paths used as inputs *)

\* "/"
RootSlash == <<"/">>
\* "/api"
RootApi == <<"/", "a", "p", "i">>
\* "/b/{id}"
FragBId == <<"/", "b", "/", "{id}">>
\* "//x"
FragAbsX == <<"/", "/", "x">>
\* "c/"
FragC == <<"c", "/">>
\* "/a"
RouteA == <<"/", "a">>
\* "/z"
RouteZ == <<"/", "z">>

----------------------------------------------------------------------------
(* The expression tree *)

\* api.Path is Root.API.HTTP.Path, api.Errors is Root.API.HTTP.Errors and
\* api.id tells one allocated APIExpr from another
APIExpr(name, id, path) ==
    [Name |-> name, id |-> id, Servers |-> <<>>, Path |-> path, Errors |-> <<>>]

\* an HTTPEndpointExpr: the name of its MethodExpr, and the paths of its Routes
EndpointExpr(method, routes) == [MethodExpr |-> method, Routes |-> routes]

\* an HTTPServiceExpr together with the Servers of its ServiceExpr.  Params and
\* Headers are nil in every state of the model.
ServiceExpr(paths, parent, canonical, endpoints) ==
    [Paths |-> paths, ParentName |-> parent, CanonicalEndpointName |-> canonical,
     HTTPEndpoints |-> endpoints, Servers |-> <<>>, HTTPErrors |-> <<>>]

\* a service as NewServiceExpr leaves it
EmptyService == ServiceExpr(<<>>, "", "", <<>>)

\* HTTPEndpointExpr.Name(): the name of the endpoint's method
EndpointName(a) == a.MethodExpr

\* Root.API.HTTP.Service(name): the service of that name, or nil
Service(name) ==
    IF name \in DOMAIN services THEN name ELSE NilService

\* svc.Endpoint(name): the first endpoint of that name (its index), or nil
Endpoint(svc, name) ==
    LET eps == services[svc].HTTPEndpoints
        hits == {i \in 1..Len(eps) : EndpointName(eps[i]) = name}
    IN  IF hits = {} THEN NilEndpoint
        ELSE CHOOSE i \in hits : \A j \in hits : i <= j

\* svc.CanonicalEndpoint()
CanonicalEndpoint(svc) ==
    LET name == IF services[svc].CanonicalEndpointName = ""
                THEN "show"
                ELSE services[svc].CanonicalEndpointName
    IN  Endpoint(svc, name)

\* svc.Parent()
Parent(svc) ==
    IF services[svc].ParentName # ""
    THEN Service(services[svc].ParentName)
    ELSE NilService

----------------------------------------------------------------------------
(* FullPaths.  A call returns its paths, or never returns: the recursion      *)
(* FullPaths -> RouteExpr.FullPaths -> FullPaths of the parent reads a tree   *)
(* that does not change, so a call that reaches a service whose FullPaths is  *)
(* already on the call stack (active) recurses without end and the goroutine  *)
(* stack overflows.                                                           *)

Returns(paths) == [rc |-> "ok", paths |-> paths]
StackOverflow == [rc |-> "stack overflow", paths |-> <<>>]

\* results of a loop's calls put together: no result if one call does not return
RECURSIVE Concat(_)
Concat(results) ==
    IF results = <<>> THEN Returns(<<>>)
    ELSE LET rest == Concat(Tail(results))
         IN  IF Head(results).rc # "ok" \/ rest.rc # "ok"
             THEN StackOverflow
             ELSE Returns(Head(results).paths \o rest.paths)

RECURSIVE FullPathsIn(_, _)

\* RouteExpr.FullPaths() of a route of service svc: the route's path joined
\* onto each full path of the service
RouteFullPaths(svc, routePath, active) ==
    LET bases == FullPathsIn(svc, active)
    IN  IF bases.rc # "ok" THEN StackOverflow
        ELSE Returns([i \in 1..Len(bases.paths) |->
                         HttpClean(PathJoin(<<bases.paths[i], routePath>>))])

\* the base paths taken from the last route of the canonical endpoint
BasePathsLastRoute(svc, active) ==
    LET p == Parent(svc)
        ca == IF p # NilService THEN CanonicalEndpoint(p) ELSE NilEndpoint
        routes == IF ca # NilEndpoint
                  THEN services[p].HTTPEndpoints[ca].Routes ELSE <<>>
    IN  IF p = NilService THEN Returns(<<api.Path>>)
        ELSE IF Len(routes) = 0 THEN Returns(<<>>)
        ELSE LET fullPaths ==
                     RouteFullPaths(p, routes[Len(routes)], active \cup {svc})
             IN  IF fullPaths.rc # "ok" THEN StackOverflow
                 ELSE Returns([i \in 1..Len(fullPaths.paths) |->
                                  PathJoin(<<fullPaths.paths[i]>>)])

\* basePaths of one round of the loop of FullPaths: nil when the parent has no
\* canonical endpoint or that endpoint has no route
BasePaths(svc, active) ==
    LET p == Parent(svc)
        ca == IF p # NilService THEN CanonicalEndpoint(p) ELSE NilEndpoint
        routes == IF ca # NilEndpoint
                  THEN services[p].HTTPEndpoints[ca].Routes ELSE <<>>
    IN  IF p = NilService THEN Returns(<<api.Path>>)
        ELSE IF Len(routes) = 0 THEN Returns(<<>>)
        ELSE LET fullPaths == RouteFullPaths(p, routes[1], active \cup {svc})
             IN  IF fullPaths.rc # "ok" THEN StackOverflow
                 ELSE Returns([i \in 1..Len(fullPaths.paths) |->
                                  PathJoin(<<fullPaths.paths[i]>>)])

\* a round of the loop that joins every fragment onto the base paths
FragmentPathsAlwaysJoined(svc, p, active) ==
    LET basePaths == BasePaths(svc, active)
    IN  IF basePaths.rc # "ok" THEN StackOverflow
        ELSE Returns([i \in 1..Len(basePaths.paths) |->
                         HttpClean(PathJoin(<<basePaths.paths[i], p>>))])

\* one round of the loop of FullPaths: the paths appended for fragment p
FragmentPaths(svc, p, active) ==
    IF HasPrefix(p, <<Slash, Slash>>)
    THEN Returns(<<HttpClean(p)>>)
    ELSE LET basePaths == BasePaths(svc, active)
         IN  IF basePaths.rc # "ok" THEN StackOverflow
             ELSE Returns([i \in 1..Len(basePaths.paths) |->
                              HttpClean(PathJoin(<<basePaths.paths[i], p>>))])

\* svc.FullPaths(), called while the FullPaths of the services in active run
FullPathsIn(svc, active) ==
    IF svc \in active THEN StackOverflow
    ELSE IF Len(services[svc].Paths) = 0
    THEN Returns(<<PathJoin(<<api.Path>>)>>)
    ELSE Concat([i \in 1..Len(services[svc].Paths) |->
                    FragmentPaths(svc, services[svc].Paths[i], active)])

\* svc.FullPaths()
FullPaths(svc) == FullPathsIn(svc, {})

----------------------------------------------------------------------------
(* Validate *)

\* HTTPErrorExpr.Validate(): an error without a status code is diagnosed
HTTPErrorValidate(er) ==
    IF er.StatusCode = 0
    THEN <<<<"HTTP error %s has no status code", er.Name>>>>
    ELSE <<>>

\* the diagnostics of a list of errors, in order
RECURSIVE ValidateErrors(_)
ValidateErrors(errs) ==
    IF errs = <<>> THEN <<>>
    ELSE HTTPErrorValidate(Head(errs)) \o ValidateErrors(Tail(errs))

\* the parent checks of Validate
ValidateParent(svc) ==
    LET n == services[svc].ParentName
        p == Service(n)
    IN  IF n = "" THEN <<>>
        ELSE IF p = NilService
        THEN <<<<"Parent service %s not found", n>>>>
        ELSE (IF CanonicalEndpoint(p) = NilEndpoint
              THEN <<<<"Parent service %s has no canonical endpoint", n>>>>
              ELSE <<>>)
             \o
             (IF services[p].ParentName = svc
              THEN <<<<"Parent service %s is also child", n>>>>
              ELSE <<>>)

\* the canonical endpoint check of Validate
ValidateCanonical(svc) ==
    LET n == services[svc].CanonicalEndpointName
    IN  IF n # "" /\ Endpoint(svc, n) = NilEndpoint
        THEN <<<<"Unknown canonical endpoint %s", n>>>>
        ELSE <<>>

\* Validate that returns at the first parent diagnostic
ValidateStopAtParent(svc) ==
    IF ValidateParent(svc) # <<>>
    THEN ValidateParent(svc)
    ELSE ValidateCanonical(svc)
         \o ValidateErrors(services[svc].HTTPErrors)
         \o ValidateErrors(api.Errors)

\* svc.Validate(): the diagnostics added to verr, in order
Validate(svc) ==
    ValidateParent(svc)
    \o ValidateCanonical(svc)
    \o ValidateErrors(services[svc].HTTPErrors)
    \o ValidateErrors(api.Errors)

----------------------------------------------------------------------------
(* Specification of FullPaths: the tree is drawn from bounded sets and       *)
(* FullPaths is applied to its services.                                     *)

NoCall == [op |-> "none"]

\* the lists of declared path fragments
PathsInputs ==
    {<<>>, <<FragBId>>, <<FragAbsX>>, <<FragC, FragAbsX, FragBId>>}

\* the endpoints of a service with its canonical endpoint name: no endpoint;
\* "show" without route; "show" with two routes; a canonical name that no
\* endpoint has
EndpointInputs ==
    {[canonical |-> "", endpoints |-> <<>>],
     [canonical |-> "", endpoints |-> <<EndpointExpr("show", <<>>)>>],
     [canonical |-> "", endpoints |-> <<EndpointExpr("show", <<RouteA, RouteZ>>)>>],
     [canonical |-> "list", endpoints |-> <<EndpointExpr("show", <<RouteA>>)>>]}

\* the services s1 and s2 take every input; s3 declares one fragment and a
\* routed "show" endpoint, and has no parent or s1 as parent
ServiceInputs ==
    {ServiceExpr(paths, parent, e.canonical, e.endpoints) :
        paths \in PathsInputs, parent \in ParentNames, e \in EndpointInputs}

LastServiceInputs ==
    {ServiceExpr(<<FragBId>>, parent, "", <<EndpointExpr("show", <<RouteA, RouteZ>>)>>) :
        parent \in {"", "s1"}}

TreeInputs ==
    {[s \in ServiceNames |-> IF s = "s1" THEN a ELSE IF s = "s2" THEN b ELSE c] :
        a \in ServiceInputs, b \in ServiceInputs, c \in LastServiceInputs}

InitPaths ==
    /\ \E path \in {RootSlash, RootApi} : api = APIExpr("x", 1, path)
    /\ apiSeq = 1
    /\ services \in TreeInputs
    /\ stack = <<"top">>
    /\ diags = <<>>
    /\ ret = NoCall

CallFullPaths(svc) ==
    /\ ret' = [op |-> "FullPaths", svc |-> svc, val |-> FullPaths(svc)]
    /\ UNCHANGED <<api, apiSeq, services, stack, diags>>

NextPaths == \E svc \in ServiceNames : CallFullPaths(svc)

SpecPaths == InitPaths /\ [][NextPaths]_vars

----------------------------------------------------------------------------
(* Claims about FullPaths, under SpecPaths *)

AfterFullPaths == ret.op = "FullPaths"

\* Validate returns no diagnostic for any service of the tree
TreeValid == \A t \in ServiceNames : Validate(t) = <<>>

\* a declared fragment that starts with "//"
IsOverride(p) == Len(p) >= 2 /\ p[1] = "/" /\ p[2] = "/"

\* C3: FullPaths returns a non-empty list of paths for every service of the
\* tree, whatever its fragments, its ParentName and the endpoints and routes
\* of its parent.  Stated for the calls that return, on the trees that
\* Validate accepts: the trees FullPaths is documented to be called on.
C3_FullPathsNonEmpty ==
    (AfterFullPaths /\ ret.val.rc = "ok" /\ TreeValid) => Len(ret.val.paths) > 0

\* the base paths the claim C4 names: the API root path without a parent, and
\* with a parent the full paths of the first route of its canonical endpoint
\* (none when there is no such route)
ClaimedBasePaths(svc) ==
    LET p == Parent(svc) IN
    IF p = NilService THEN <<api.Path>>
    ELSE IF CanonicalEndpoint(p) = NilEndpoint THEN <<>>
    ELSE LET routes == services[p].HTTPEndpoints[CanonicalEndpoint(p)].Routes
         IN  IF routes = <<>> THEN <<>>
             ELSE RouteFullPaths(p, routes[1], {}).paths

RECURSIVE PathsBefore(_, _, _)
PathsBefore(frags, i, nbases) ==
    IF i <= 1 THEN 0
    ELSE PathsBefore(frags, i - 1, nbases)
         + (IF IsOverride(frags[i - 1]) THEN 1 ELSE nbases)

\* C5: a declared fragment that starts with "//" contributes exactly one path
\* to FullPaths, the cleaned fragment itself ("//x" gives "/x"), whatever the
\* parent of the service and the API root path are.
C5_OverrideIgnoresHierarchy ==
    (AfterFullPaths /\ ret.val.rc = "ok" /\ services[ret.svc].Paths # <<>>)
    => LET frags == services[ret.svc].Paths
           nbases == Len(ClaimedBasePaths(ret.svc))
           got == ret.val.paths
       IN  /\ Len(got) = PathsBefore(frags, Len(frags) + 1, nbases)
           /\ \A i \in 1..Len(frags) :
                  IsOverride(frags[i]) =>
                      /\ got[PathsBefore(frags, i, nbases) + 1] = HttpClean(frags[i])
                      /\ frags[i] = FragAbsX =>
                             got[PathsBefore(frags, i, nbases) + 1] = <<"/", "x">>

\* the case of C5: "//x" declared between two other fragments by a service
\* whose parent gives it base paths under "/api"
C5_Witness ==
    /\ AfterFullPaths
    /\ ret.val.rc = "ok"
    /\ api.Path = RootApi
    /\ Parent(ret.svc) # NilService
    /\ services[ret.svc].Paths = <<FragC, FragAbsX, FragBId>>
    /\ Len(ret.val.paths) = 3
    /\ ret.val.paths[2] = <<"/", "x">>

\* C10: if Validate returns no diagnostic for any service of the tree, then
\* FullPaths terminates on every service.
C10_ValidTreeTerminates ==
    (AfterFullPaths /\ TreeValid) => ret.val.rc = "ok"

----------------------------------------------------------------------------
(* Specification of Validate: the tree and its HTTP errors are drawn from    *)
(* bounded sets and Validate is applied to its services.                     *)

HTTPErrorExpr(name, status) == [Name |-> name, StatusCode |-> status]

\* the lists of HTTP errors of a service: none, a valid one, one without status
ErrorInputs ==
    {<<>>, <<HTTPErrorExpr("e", 404)>>, <<HTTPErrorExpr("f", 0)>>}

ValidateServiceInputs ==
    {[ServiceExpr(<<>>, parent, e.canonical, e.endpoints) EXCEPT !.HTTPErrors = errs] :
        parent \in ParentNames, e \in EndpointInputs, errs \in ErrorInputs}

ValidateOtherInputs ==
    {ServiceExpr(<<>>, parent, e.canonical, e.endpoints) :
        parent \in ParentNames, e \in EndpointInputs}

ValidateTreeInputs ==
    {[s \in ServiceNames |-> IF s = "s1" THEN a ELSE IF s = "s2" THEN b ELSE c] :
        a \in ValidateServiceInputs, b \in ValidateOtherInputs,
        c \in LastServiceInputs}

InitValidate ==
    /\ \E errs \in {<<>>, <<HTTPErrorExpr("g", 0)>>} :
           api = [APIExpr("x", 1, RootSlash) EXCEPT !.Errors = errs]
    /\ apiSeq = 1
    /\ services \in ValidateTreeInputs
    /\ stack = <<"top">>
    /\ diags = <<>>
    /\ ret = NoCall

CallValidate(svc) ==
    /\ ret' = [op |-> "Validate", svc |-> svc, val |-> Validate(svc)]
    /\ UNCHANGED <<api, apiSeq, services, stack, diags>>

NextValidate == \E svc \in ServiceNames : CallValidate(svc)

SpecValidate == InitValidate /\ [][NextValidate]_vars

----------------------------------------------------------------------------
(* Claims about Validate, under SpecValidate *)

AfterValidate == ret.op = "Validate"

Reported(verr, diag) == \E i \in 1..Len(verr) : verr[i] = diag

\* C6: Validate on a service whose ParentName is non-empty and names no
\* declared service returns the diagnostic "Parent service <name> not found",
\* and returns no such diagnostic when the named service exists; the
\* diagnostic is added to the result and the remaining checks (canonical
\* endpoint name, service and API-global HTTP errors) still run.
C6_ParentNotFoundAggregated ==
    AfterValidate =>
        LET svc == services[ret.svc]
            n == svc.ParentName
            verr == ret.val
        IN  /\ (n # "" /\ n \notin ServiceNames)
                   => Reported(verr, <<"Parent service %s not found", n>>)
            /\ (n = "" \/ n \in ServiceNames)
                   => \A i \in 1..Len(verr) :
                          verr[i][1] # "Parent service %s not found"
            /\ (/\ svc.CanonicalEndpointName # ""
                /\ \A i \in 1..Len(svc.HTTPEndpoints) :
                       svc.HTTPEndpoints[i].MethodExpr # svc.CanonicalEndpointName)
                   => Reported(verr, <<"Unknown canonical endpoint %s",
                                       svc.CanonicalEndpointName>>)
            /\ \A i \in 1..Len(svc.HTTPErrors) :
                   svc.HTTPErrors[i].StatusCode = 0
                       => Reported(verr, <<"HTTP error %s has no status code",
                                           svc.HTTPErrors[i].Name>>)
            /\ \A i \in 1..Len(api.Errors) :
                   api.Errors[i].StatusCode = 0
                       => Reported(verr, <<"HTTP error %s has no status code",
                                           api.Errors[i].Name>>)

\* the case of C6: the parent is not found and every later check reports too
C6_Witness ==
    /\ AfterValidate
    /\ services[ret.svc].ParentName = "zz"
    /\ ret.val = << <<"Parent service %s not found", "zz">>,
                    <<"Unknown canonical endpoint %s", "list">>,
                    <<"HTTP error %s has no status code", "f">>,
                    <<"HTTP error %s has no status code", "g">> >>

\* C7: whenever Validate returns no diagnostic for a service with a parent,
\* the parent's canonical endpoint exists and has at least one route.
C7_ParentHasCanonicalRoute ==
    (AfterValidate /\ ret.val = <<>> /\ services[ret.svc].ParentName # "")
    => LET p == services[ret.svc].ParentName
       IN  /\ p \in ServiceNames
           /\ CanonicalEndpoint(p) # NilEndpoint
           /\ Len(services[p].HTTPEndpoints[CanonicalEndpoint(p)].Routes) >= 1

----------------------------------------------------------------------------
(* The DSL of dsl/api.go: API and Server, called in the context that eval     *)
(* keeps.  The context is "top" (an eval.TopExpr), "api" (the APIExpr), the   *)
(* name of a service (its ServiceExpr) or "contact" (a ContactExpr).          *)

\* eval.Current()
Current == stack[Len(stack)]

\* the services whose DSL is run
DSLServices == {"s1"}

\* the arguments given to API and to Server
APINames == {"", "x", "y"}
ServerURLs == {"", "https://a"}

\* expr.NewAPIExpr(name, fn): a new APIExpr, its HTTP path the zero value
NewAPIExpr(name) == APIExpr(name, apiSeq + 1, <<>>)

ServerExpr(url) == [URL |-> url]

\* the message of eval.IncompatibleDSL()
IncompatibleDSL == "invalid use of DSL"

InitDSL ==
    /\ api = NoAPI
    /\ apiSeq = 0
    /\ services = [s \in ServiceNames |-> EmptyService]
    /\ stack = <<"top">>
    /\ diags = <<>>
    /\ ret = NoCall

\* API(name, fn)
API(name) ==
    /\ apiSeq < MaxAPICalls
    /\ IF name = ""
       THEN /\ diags' = <<"API first argument cannot be empty">>
            /\ ret' = [op |-> "API", name |-> name, val |-> NoAPI]
            /\ UNCHANGED <<api, apiSeq>>
       ELSE IF Current # "top"
       THEN /\ diags' = <<IncompatibleDSL>>
            /\ ret' = [op |-> "API", name |-> name, val |-> NoAPI]
            /\ UNCHANGED <<api, apiSeq>>
       ELSE /\ api' = NewAPIExpr(name)
            /\ apiSeq' = apiSeq + 1
            /\ diags' = <<>>
            /\ ret' = [op |-> "API", name |-> name, val |-> NewAPIExpr(name)]
    /\ UNCHANGED <<services, stack>>

\* Server(url, fn...) with nfn functions, each with an empty body
Server(url, nfn) ==
    /\ Current = "api" => Len(api.Servers) < MaxServers
    /\ Current \in DSLServices => Len(services[Current].Servers) < MaxServers
    /\ diags' =
           (IF nfn > 1 THEN <<"too many arguments given to Server">> ELSE <<>>)
           \o (IF url = "" THEN <<"Server URL cannot be empty">> ELSE <<>>)
           \o (IF Current = "api" \/ Current \in DSLServices
               THEN <<>> ELSE <<IncompatibleDSL>>)
    /\ IF Current = "api"
       THEN /\ api' = [api EXCEPT !.Servers = Append(@, ServerExpr(url))]
            /\ UNCHANGED services
       ELSE IF Current \in DSLServices
       THEN /\ services' = [services EXCEPT
                               ![Current].Servers = Append(@, ServerExpr(url))]
            /\ UNCHANGED api
       ELSE UNCHANGED <<api, services>>
    /\ ret' = [op |-> "Server", url |-> url]
    /\ UNCHANGED <<apiSeq, stack>>

\* eval runs the DSL of the API or of a service: the expression becomes current
RunDSL(e) ==
    /\ stack = <<"top">>
    /\ e = "api" => api # NoAPI
    /\ stack' = Append(stack, e)
    /\ UNCHANGED <<api, apiSeq, services, diags, ret>>

\* Contact(fn) executes fn with a new ContactExpr as current
ExecuteContact ==
    /\ Current = "api"
    /\ stack' = Append(stack, "contact")
    /\ UNCHANGED <<api, apiSeq, services, diags, ret>>

\* the DSL function being run returns: eval pops the context
Return ==
    /\ Len(stack) > 1
    /\ stack' = SubSeq(stack, 1, Len(stack) - 1)
    /\ UNCHANGED <<api, apiSeq, services, diags, ret>>

NextDSL ==
    \/ \E name \in APINames : API(name)
    \/ \E url \in ServerURLs, nfn \in 0..2 : Server(url, nfn)
    \/ \E e \in {"api"} \cup DSLServices : RunDSL(e)
    \/ ExecuteContact
    \/ Return

SpecDSL == InitDSL /\ [][NextDSL]_vars

\* C1: after any sequence of top-level API calls with non-empty names,
\* Root.API is the API created by the first call: a later call does not
\* overwrite it.
C1_FirstAPIKept == api # NoAPI => api.id = 1

\* C2: after any sequence of Server calls no server with an empty URL is
\* present in the Servers list of the API or of any service.
C2_NoEmptyServerURL ==
    /\ api # NoAPI => \A i \in 1..Len(api.Servers) : api.Servers[i].URL # ""
    /\ \A s \in ServiceNames :
           \A i \in 1..Len(services[s].Servers) : services[s].Servers[i].URL # ""

----------------------------------------------------------------------------
(* Schemes *)

\* the server URLs Schemes is applied to
SchemeURLs == {"https://a", "http://b", "https://c", ":bad"}

\* Go's nil URL pointer
NilURL == [Scheme |-> "<nil>"]

\* url.Parse(rawurl) on the URLs above: the URL and no error, or nil and an
\* error (":bad" has no protocol scheme)
UrlParse(rawurl) ==
    IF rawurl = "https://a" \/ rawurl = "https://c"
    THEN [u |-> [Scheme |-> "https"], err |-> FALSE]
    ELSE IF rawurl = "http://b"
    THEN [u |-> [Scheme |-> "http"], err |-> FALSE]
    ELSE IF rawurl = ""
    THEN [u |-> [Scheme |-> ""], err |-> FALSE]
    ELSE [u |-> NilURL, err |-> TRUE]

\* the strings sort.Strings may be given, in its order
SortedStrings == <<"", "http", "https">>

\* sort.Strings of the keys of a map
SortStrings(keys) == SelectSeq(SortedStrings, LAMBDA k : k \in keys)

\* the loop of Schemes over the servers: the keys of the map, or a panic when
\* u.Scheme is read through a nil u
RECURSIVE SchemesLoop(_, _)
SchemesLoop(servers, schemes) ==
    IF servers = <<>> THEN [rc |-> "ok", keys |-> schemes]
    ELSE LET parsed == UrlParse(Head(servers).URL)
         IN  IF parsed.err
             THEN IF parsed.u = NilURL
                  THEN [rc |-> "panic", keys |-> {}]
                  ELSE SchemesLoop(Tail(servers), schemes \cup {parsed.u.Scheme})
             ELSE SchemesLoop(Tail(servers), schemes)

\* svc.Schemes(): nil (the empty list) when the map is empty
Schemes(svc) ==
    LET loop == SchemesLoop(services[svc].Servers, {})
    IN  IF loop.rc # "ok" THEN [rc |-> "panic", schemes |-> <<>>]
        ELSE IF loop.keys = {} THEN [rc |-> "ok", schemes |-> <<>>]
        ELSE [rc |-> "ok", schemes |-> SortStrings(loop.keys)]

RECURSIVE ServerLists(_)
ServerLists(n) ==
    IF n = 0 THEN {<<>>}
    ELSE ServerLists(n - 1)
         \cup {Append(l, ServerExpr(u)) :
                  l \in {x \in ServerLists(n - 1) : Len(x) = n - 1},
                  u \in SchemeURLs}

InitSchemes ==
    /\ api = APIExpr("x", 1, RootSlash)
    /\ apiSeq = 1
    /\ \E l \in ServerLists(MaxSchemeServers) :
           services = [s \in ServiceNames |->
                          IF s = "s1" THEN [EmptyService EXCEPT !.Servers = l]
                          ELSE EmptyService]
    /\ stack = <<"top">>
    /\ diags = <<>>
    /\ ret = NoCall

CallSchemes(svc) ==
    /\ ret' = [op |-> "Schemes", svc |-> svc, val |-> Schemes(svc)]
    /\ UNCHANGED <<api, apiSeq, services, stack, diags>>

NextSchemes == \E svc \in ServiceNames : CallSchemes(svc)

SpecSchemes == InitSchemes /\ [][NextSchemes]_vars

\* the scheme component of a server URL
SchemeOf(rawurl) ==
    IF rawurl \in {"https://a", "https://c"} THEN "https"
    ELSE IF rawurl = "http://b" THEN "http"
    ELSE ""

\* C9: Schemes returns a value for every list of server URLs: the scheme
\* components of the server URLs, without duplicates and sorted; so
\* ["http", "https"] for the servers "https://a", "http://b", "https://c".
C9_SchemesCollected ==
    ret.op = "Schemes" =>
        LET servers == services[ret.svc].Servers
            urls == {servers[i].URL : i \in 1..Len(servers)}
        IN  /\ ret.val.rc = "ok"
            /\ urls \subseteq {"https://a", "http://b", "https://c"}
                   => ret.val.schemes = SortStrings({SchemeOf(u) : u \in urls})
            /\ servers = <<ServerExpr("https://a"), ServerExpr("http://b"),
                           ServerExpr("https://c")>>
                   => ret.val.schemes = <<"http", "https">>

----------------------------------------------------------------------------
(* EndpointFor *)

\* the names EndpointFor is called with, and the names of the methods
EndpointNames == {"show", "list"}
MethodNames == {"show", "list"}

\* the services EndpointFor is called on
EndpointServices == {"s1", "s2"}

\* EndpointFor that appends without looking the name up
EndpointForAlwaysAppends(svc, name, m) ==
    [endpoints |-> Append(services[svc].HTTPEndpoints, EndpointExpr(m, <<>>)),
     val |-> Len(services[svc].HTTPEndpoints) + 1,
     existing |-> FALSE]

\* svc.EndpointFor(name, m): the endpoints of the service after the call, the
\* endpoint returned (its index) and whether it existed before
EndpointFor(svc, name, m) ==
    IF Endpoint(svc, name) # NilEndpoint
    THEN [endpoints |-> services[svc].HTTPEndpoints,
          val |-> Endpoint(svc, name),
          existing |-> TRUE]
    ELSE [endpoints |-> Append(services[svc].HTTPEndpoints, EndpointExpr(m, <<>>)),
          val |-> Len(services[svc].HTTPEndpoints) + 1,
          existing |-> FALSE]

InitEndpoints ==
    /\ api = APIExpr("x", 1, RootSlash)
    /\ apiSeq = 1
    /\ services = [s \in ServiceNames |-> EmptyService]
    /\ stack = <<"top">>
    /\ diags = <<>>
    /\ ret = NoCall

CallEndpointFor(svc, name, m) ==
    LET r == EndpointFor(svc, name, m) IN
    /\ Len(r.endpoints) <= MaxEndpoints
    /\ services' = [services EXCEPT ![svc].HTTPEndpoints = r.endpoints]
    /\ ret' = [op |-> "EndpointFor", svc |-> svc, name |-> name, m |-> m,
               val |-> r.val, existing |-> r.existing]
    /\ UNCHANGED <<api, apiSeq, stack, diags>>

NextEndpoints ==
    \E svc \in EndpointServices, name \in EndpointNames, m \in MethodNames :
        CallEndpointFor(svc, name, m)

SpecEndpoints == InitEndpoints /\ [][NextEndpoints]_vars

\* the step is a call of EndpointFor with the arguments of the call before it
SameCallAgain ==
    /\ ret.op = "EndpointFor"
    /\ ret'.op = "EndpointFor"
    /\ ret'.svc = ret.svc
    /\ ret'.name = ret.name
    /\ ret'.m = ret.m

\* no two endpoints of the service have the same name
OneEndpointPerName(eps) ==
    \A i, j \in 1..Len(eps) : eps[i].MethodExpr = eps[j].MethodExpr => i = j

====
